---- MODULE Spec2Model ----
(***************************************************************************)
(* Model of the z-way relay (src/index.js, the second, current copy of    *)
(* the script: lines 450-899).                                             *)
(*                                                                         *)
(* Three parts:                                                            *)
(*   - the IR command repeater: sendIrCommand / irRepeat / pause           *)
(*   - the session relay client: getZWaySession / zWayAuthGet / zWayGet   *)
(*   - the express handlers: GET /endpoints, PUT /endpoints/:id/:resource  *)
(*                                                                         *)
(* Node runs one callback at a time and drains the promise job queue       *)
(* before the next I/O or timer callback, so one action of the model is    *)
(* one callback (a call, a response, a socket error, a timer) together     *)
(* with all promise reactions it triggers.                                 *)
(***************************************************************************)
EXTENDS Integers, Sequences, FiniteSets, TLC

VARIABLES
    times,      \* the argument `times` of the irRepeat invocation, or NotCalled
    ir,         \* the emissions of that invocation (see NoEmissions)
    chain,      \* the promise chain the outermost irRepeat frame built on its first emission
    promise,    \* the promise irRepeat returned: its state
    sid,        \* the process-wide session id (index.js:520)
    calls,      \* the zWayGet calls in progress
    req         \* the inbound request being handled (see IdleReq)

repeatVars == <<times, ir, chain, promise>>
zWayVars   == <<sid, calls>>
vars       == <<times, ir, chain, promise, sid, calls, req>>

(***************************************************************************)
(* Constants of the program and bounds of the model                        *)
(***************************************************************************)
MAX_IR_REPEAT == 50

\* how many negative values of `times` are tried: -NegCounts .. -1
NegCounts == 1
\* how many values above MAX_IR_REPEAT are tried
OverCounts == 1
\* frames of irRepeat the call stack holds before a RangeError is thrown
\* (thousands in V8; any value above MAX_IR_REPEAT + 1 leaves the legal counts alone)
StackDepth == 53

Counts == (0 - NegCounts) .. (MAX_IR_REPEAT + OverCounts)

NotCalled == 0 - NegCounts - 1

(***************************************************************************)
(* The IR emitter                                                          *)
(***************************************************************************)
\* what can come back for one POST: a response with a status code, or a socket error
IrStatus == {"200", "500"}
IrOutcomes == IrStatus \cup {"error"}

\* httpPromise: resolves with the response whatever its status code,
\* rejects only on the request's 'error' event (outcome "error")
httpPromise(outcome) ==
    IF outcome = "error" THEN "rejected" ELSE "resolved"

(***************************************************************************)
(* Emissions of one irRepeat invocation.  The first emission is the one    *)
(* whose promise irRepeat returns (directly or through .then(pause)); the  *)
(* promises of all later emissions are dropped by the caller frame, so     *)
(* those emissions are interchangeable and are kept as counters.           *)
(*   issued   : sendIrCommand calls made so far                            *)
(*   head     : first emission: "none", "inflight", a status, or "error"   *)
(*   rest     : later emissions in flight / answered / failed              *)
(*   pause    : the timer of pause() chained on the first emission         *)
(*   unpaced  : emissions issued while an earlier one was in flight or     *)
(*              before the pause after it had elapsed                      *)
(*   afterFailure : emissions issued after an emission had failed          *)
(***************************************************************************)
NoEmissions ==
    [issued |-> 0, head |-> "none",
     rest |-> [inflight |-> 0, resolved |-> 0, rejected |-> 0],
     pause |-> "none", unpaced |-> 0, afterFailure |-> 0]

InFlight(e) == (IF e.head = "inflight" THEN 1 ELSE 0) + e.rest.inflight

Failed(e) == e.head = "error" \/ e.rest.rejected > 0

\* sendIrCommand: one POST /receivers/{endpointId}/command is sent at once
sendIrCommand(e) ==
    [e EXCEPT !.issued = @ + 1,
              !.head = IF e.issued = 0 THEN "inflight" ELSE @,
              !.rest.inflight = IF e.issued = 0 THEN @ ELSE @ + 1,
              !.unpaced = IF e.issued > 0 /\ (InFlight(e) > 0 \/ e.pause # "elapsed")
                          THEN @ + 1 ELSE @,
              !.afterFailure = IF Failed(e) THEN @ + 1 ELSE @]

\* irRepeat(key, endpointId, times), run in frame `depth` of the stack: the
\* emissions it has issued when it returns, and whether it threw instead
\* (stack exhausted).  The last branch is
\*     sendIrCommand(..).then(pause).then(irRepeat(.., times - 1))
\* where the argument of the second then is a call: it runs while the chain
\* is being built, in the same callback, right after sendIrCommand.
\* (The test on e.issued makes TLC evaluate e frame by frame.)
\* First, irRepeat with the test for the last emission off by one
\* (times <= 1 returns at once)
RECURSIVE irRepeat_SkipsLast(_, _, _)
irRepeat_SkipsLast(e, t, depth) ==
    CASE e.issued >= 0 /\ depth > StackDepth -> [e |-> e, threw |-> TRUE]
      [] depth <= StackDepth /\ t = 0 -> [e |-> e, threw |-> FALSE]
      [] depth <= StackDepth /\ t = 1 -> [e |-> e, threw |-> FALSE]
      [] depth <= StackDepth /\ t > MAX_IR_REPEAT ->
             irRepeat_SkipsLast(e, MAX_IR_REPEAT, depth + 1)
      [] OTHER -> irRepeat_SkipsLast(sendIrCommand(e), t - 1, depth + 1)

\* irRepeat without the branch that clamps times to MAX_IR_REPEAT
RECURSIVE irRepeat_NoClamp(_, _, _)
irRepeat_NoClamp(e, t, depth) ==
    CASE e.issued >= 0 /\ depth > StackDepth -> [e |-> e, threw |-> TRUE]
      [] depth <= StackDepth /\ t = 0 -> [e |-> e, threw |-> FALSE]
      [] depth <= StackDepth /\ t = 1 -> [e |-> sendIrCommand(e), threw |-> FALSE]
      [] OTHER -> irRepeat_NoClamp(sendIrCommand(e), t - 1, depth + 1)

RECURSIVE irRepeat(_, _, _)
irRepeat(e, t, depth) ==
    CASE e.issued >= 0 /\ depth > StackDepth -> [e |-> e, threw |-> TRUE]
      [] depth <= StackDepth /\ t = 0 -> [e |-> e, threw |-> FALSE]
      [] depth <= StackDepth /\ t = 1 -> [e |-> sendIrCommand(e), threw |-> FALSE]
      [] depth <= StackDepth /\ t > MAX_IR_REPEAT -> irRepeat(e, MAX_IR_REPEAT, depth + 1)
      [] OTHER -> irRepeat(sendIrCommand(e), t - 1, depth + 1)

\* The promise chain a frame of irRepeat builds on the emission it issues:
\*   "resolved"  : Promise.resolve()                              (times === 0)
\*   "send"      : the promise of sendIrCommand                   (times === 1)
\*   "sendPause" : sendIrCommand(..).then(pause).then(<promise>)  (last branch)
\* What the inner irRepeat returns is a promise, not a function, and then
\* ignores it: the chain does not depend on the inner call.
irRepeatChain(t) ==
    CASE t = 0 -> "resolved"
      [] t = 1 -> "send"
      [] OTHER -> "sendPause"

\* The promise irRepeat returns: the chain of its own frame, or for
\* times > MAX_IR_REPEAT what irRepeat(.., MAX_IR_REPEAT) returns
irRepeatReturns(t) ==
    IF t # 0 /\ t # 1 /\ t > MAX_IR_REPEAT
    THEN irRepeatChain(MAX_IR_REPEAT)
    ELSE irRepeatChain(t)

(***************************************************************************)
(* The repeater's steps                                                    *)
(***************************************************************************)
\* no emission has been asked for yet
IrUnused == times = NotCalled /\ ir = NoEmissions

\* irRepeat(key, endpointId, t) is invoked
IrRepeatStep(t) ==
    /\ IrUnused
    /\ LET r == irRepeat(NoEmissions, t, 1)
       IN  /\ ir' = r.e
           /\ chain' = irRepeatReturns(t)
           /\ promise' = IF r.threw THEN "threw"
                         ELSE IF irRepeatReturns(t) = "resolved" THEN "resolved"
                         ELSE "pending"
    /\ times' = t
    /\ UNCHANGED zWayVars

\* a caller invokes irRepeat(key, endpointId, t)
IrRepeatCall(t) ==
    /\ IrRepeatStep(t)
    /\ UNCHANGED req

\* the first emission settles: a response arrives or its request fails.
\* With chain "send" the returned promise is the request's own promise; with
\* "sendPause" a response starts pause() and a failure skips it.
IrHeadStep(outcome) ==
    /\ ir.head = "inflight"
    /\ LET settled == httpPromise(outcome)
       IN  /\ ir' = [ir EXCEPT !.head = outcome,
                               !.pause = IF settled = "resolved" /\ chain = "sendPause"
                                         THEN "running" ELSE @]
           /\ promise' = IF promise # "pending" THEN promise
                         ELSE IF settled = "rejected" THEN "rejected"
                         ELSE IF chain = "send" THEN "resolved"
                         ELSE promise
    /\ UNCHANGED <<times, chain, zWayVars>>

IrHeadSettles(outcome) ==
    /\ IrHeadStep(outcome)
    /\ UNCHANGED req

\* the timer of pause() fires (waitFor resolves); then(<not a function>)
\* passes the value on, which settles the returned promise
PauseElapsed ==
    /\ ir.pause = "running"
    /\ ir' = [ir EXCEPT !.pause = "elapsed"]
    /\ promise' = IF promise = "pending" THEN "resolved" ELSE promise
    /\ UNCHANGED <<times, chain, zWayVars, req>>

\* a later emission settles: its promise was dropped, nothing listens
IrRestSettles(outcome) ==
    /\ ir.rest.inflight > 0
    /\ ir' = IF httpPromise(outcome) = "resolved"
             THEN [ir EXCEPT !.rest.inflight = @ - 1, !.rest.resolved = @ + 1]
             ELSE [ir EXCEPT !.rest.inflight = @ - 1, !.rest.rejected = @ + 1]
    /\ UNCHANGED <<times, chain, promise, zWayVars, req>>

(***************************************************************************)
(* The session relay client                                                *)
(***************************************************************************)
\* the session ids the hub hands out: 1 .. NumTokens
NumTokens == 2
\* zWayGet calls that can be in progress at once
NumCalls == 2

Tokens == 1 .. NumTokens
Callers == 1 .. NumCalls

\* `var sid;` holds undefined until a login response is processed; undefined
\* is also what data.sid evaluates to when the login body has no sid.
\* It is the one falsy value among the session ids of the model.
Undefined == 0

\* status codes the hub answers with
HubStatus == {"200", "401", "500"}
HubOutcomes == HubStatus \cup {"error"}

\* bodies of a login response: {data: {sid: k}} for a token k, {data: {}}
\* (no sid), or a body on which JSON.parse(..).data.sid throws
NoSidBody == 0
BadBody == 0 - 1
LoginBodies == Tokens \cup {NoSidBody, BadBody}

\* One entry of a call's log: a request sent or an outcome received.
\*   op     : "GET", "LOGIN" (requests), "GOT", "LOGGED" (responses),
\*            "FAILED" (socket error of the request in flight)
\*   sid    : the ZWAYSession header of a GET; the value a LOGGED response
\*            left in sid; Undefined otherwise
\*   status : the status code of a GOT response, "-" otherwise (the status
\*            code of a login response is never read by the code)
Entry(op, s, status) == [op |-> op, sid |-> s, status |-> status]

\* a zWayGet call: where it stands, whether sid was set when it started,
\* what it sent and received, and what its promise settled with
\*   pc : "idle", "get" (GET of zWayGet in flight), "login" (POST /login in
\*        flight), "authGet" (GET of zWayAuthGet in flight), "resolved", "rejected"
IdleCall == [pc |-> "idle", hadSid |-> FALSE, log |-> <<>>, result |-> "-"]

Sent(call, op) == Len(SelectSeq(call.log, LAMBDA en : en.op = op))

Resolve(call, status) == [call EXCEPT !.pc = "resolved", !.result = status]
Reject(call) == [call EXCEPT !.pc = "rejected"]

\* get(path, getZWayOptions(true)): the header ZWAYSession is the sid of
\* this moment.  http.request refuses a header whose value is undefined by
\* throwing, inside the promise executor: the promise rejects, nothing is sent.
get(call, s, pc) ==
    IF s = Undefined
    THEN Reject(call)
    ELSE [call EXCEPT !.pc = pc, !.log = Append(@, Entry("GET", s, "-"))]

\* getZWaySession: POST {prefix}/login
getZWaySession(call) ==
    [call EXCEPT !.pc = "login", !.log = Append(@, Entry("LOGIN", Undefined, "-"))]

\* response => JSON.parse(response.responseText).data.sid
\* (the status code of the login response is not looked at)
ParsesSid(body) == body # BadBody
ParsedSid(body) == IF body \in Tokens THEN body ELSE Undefined

\* zWayAuthGet(path): first the login
zWayAuthGet(call) == getZWaySession(call)

\* zWayAuthGetSid that keeps a session id once one is stored
zWayAuthGetSid_FirstWins(s, outcome, body) ==
    IF s = Undefined /\ httpPromise(outcome) = "resolved" /\ ParsesSid(body)
    THEN ParsedSid(body) ELSE s

\* zWayAuthGet, once the login has settled:
\*     .then(_sid => sid = _sid).then(() => get(path, getZWayOptions(true)))
\* first the new value of sid (s is the old one) ...
zWayAuthGetSid(s, outcome, body) ==
    IF httpPromise(outcome) = "resolved" /\ ParsesSid(body) THEN ParsedSid(body) ELSE s

\* ... then the call: the GET carries the sid just stored
zWayAuthGetThen(call, s, outcome, body) ==
    IF httpPromise(outcome) = "rejected"
    THEN Reject([call EXCEPT !.log = Append(@, Entry("FAILED", Undefined, "-"))])
    ELSE LET logged == [call EXCEPT !.log =
                           Append(@, Entry("LOGGED", ParsedSid(body), "-"))]
         IN  IF ParsesSid(body)
             THEN get(logged, zWayAuthGetSid(s, outcome, body), "authGet")
             ELSE Reject(logged)

\* zWayAuthGetSettled that logs in again (once) when its GET is answered 401
zWayAuthGetSettled_Retries(call, outcome) ==
    IF httpPromise(outcome) = "rejected"
    THEN Reject([call EXCEPT !.log = Append(@, Entry("FAILED", Undefined, "-"))])
    ELSE LET got == [call EXCEPT !.log = Append(@, Entry("GOT", Undefined, outcome))]
         IN  IF outcome = "401" /\ Sent(call, "LOGIN") < 2
             THEN zWayAuthGet(got)
             ELSE Resolve(got, outcome)

\* zWayAuthGet, once its GET has settled: the promise of get is returned as it is
zWayAuthGetSettled(call, outcome) ==
    IF httpPromise(outcome) = "rejected"
    THEN Reject([call EXCEPT !.log = Append(@, Entry("FAILED", Undefined, "-"))])
    ELSE Resolve([call EXCEPT !.log = Append(@, Entry("GOT", Undefined, outcome))], outcome)

\* zWayGet that sends its GET without looking at sid
zWayGet_NoSessionCheck(call, s) ==
    get([call EXCEPT !.hadSid = s # Undefined], s, "get")

\* zWayGet(path): with a session, the GET at once; without, zWayAuthGet
zWayGet(call, s) ==
    IF s # Undefined
    THEN get([call EXCEPT !.hadSid = TRUE], s, "get")
    ELSE zWayAuthGet([call EXCEPT !.hadSid = FALSE])

\* zWayGetThen that hands every response back, 401 included
zWayGetThen_NoRenewal(call, outcome) ==
    IF httpPromise(outcome) = "rejected"
    THEN Reject([call EXCEPT !.log = Append(@, Entry("FAILED", Undefined, "-"))])
    ELSE Resolve([call EXCEPT !.log = Append(@, Entry("GOT", Undefined, outcome))], outcome)

\* zWayGetThen that answers a failed GET like a 401: it logs in and tries again
zWayGetThen_RetriesOnError(call, outcome) ==
    IF httpPromise(outcome) = "rejected"
    THEN zWayAuthGet([call EXCEPT !.log = Append(@, Entry("FAILED", Undefined, "-"))])
    ELSE LET got == [call EXCEPT !.log = Append(@, Entry("GOT", Undefined, outcome))]
         IN  IF outcome = "401" THEN zWayAuthGet(got) ELSE Resolve(got, outcome)

\* zWayGet, once its GET has settled:
\*     response => response.statusCode === 401 ? zWayAuthGet(fullPath) : response
zWayGetThen(call, outcome) ==
    IF httpPromise(outcome) = "rejected"
    THEN Reject([call EXCEPT !.log = Append(@, Entry("FAILED", Undefined, "-"))])
    ELSE LET got == [call EXCEPT !.log = Append(@, Entry("GOT", Undefined, outcome))]
         IN  IF outcome = "401" THEN zWayAuthGet(got) ELSE Resolve(got, outcome)

(***************************************************************************)
(* The relay client's steps                                                *)
(***************************************************************************)
\* a handler calls zWayGet (a caller whose earlier call has settled may call again)
ZWayGetCall(c) ==
    /\ calls[c].pc \in {"idle", "resolved", "rejected"}
    /\ calls' = [calls EXCEPT ![c] = zWayGet(IdleCall, sid)]
    /\ UNCHANGED <<sid, repeatVars, req>>

\* the GET sent by zWayGet settles
GetStep(c, outcome) ==
    /\ calls[c].pc = "get"
    /\ calls' = [calls EXCEPT ![c] = zWayGetThen(@, outcome)]
    /\ UNCHANGED <<sid, repeatVars>>

GetSettles(c, outcome) ==
    /\ GetStep(c, outcome)
    /\ UNCHANGED req

\* the login settles
LoginStep(c, outcome, body) ==
    /\ calls[c].pc = "login"
    /\ sid' = zWayAuthGetSid(sid, outcome, body)
    /\ calls' = [calls EXCEPT ![c] = zWayAuthGetThen(@, sid, outcome, body)]
    /\ UNCHANGED repeatVars

LoginSettles(c, outcome, body) ==
    /\ LoginStep(c, outcome, body)
    /\ UNCHANGED req

\* the GET sent by zWayAuthGet settles
AuthGetStep(c, outcome) ==
    /\ calls[c].pc = "authGet"
    /\ calls' = [calls EXCEPT ![c] = zWayAuthGetSettled(@, outcome)]
    /\ UNCHANGED <<sid, repeatVars>>

AuthGetSettles(c, outcome) ==
    /\ AuthGetStep(c, outcome)
    /\ UNCHANGED req

(***************************************************************************)
(* The express handlers                                                    *)
(*                                                                         *)
(* One inbound request is handled at a time, the next one arrives once     *)
(* the handler is done with it; the emissions a request left in flight go  *)
(* on in the background.  One request of a behaviour uses the IR emitter   *)
(* (IrUnused): the repeater's state holds one invocation.                  *)
(***************************************************************************)
\* the largest |volumeSteps| a request body carries
MaxSteps == 2

\* TV.id, TELEVISION.id and ROKU.id; every other endpoint id is taken for a
\* device of the hub
TvIds == {"tv", "television"}
RokuId == "roku"
HubIds == {"zw1"}
EndpointIds == TvIds \cup {RokuId} \cup HubIds

\* SUPPORTED_RESOURCES
ResourceIds == {"power", "channel", "input", "volume", "playback"}

\* body.volumeSteps (0 stands for a missing volumeSteps too: both are falsy)
\* and body.mute ("absent": typeof mute is not 'boolean')
VolumeSteps == (0 - MaxSteps) .. MaxSteps
Mutes == {"absent", "true", "false"}

\* Math.abs
Abs(n) == IF n < 0 THEN 0 - n ELSE n

\* the ids of the static endpoints [TV, TELEVISION, ROKU]
StaticEndpoints == <<"tv", "television", "roku">>

\* devices in the body the hub answers GET /devices with
ValidDevice == [id |-> "zw1", title |-> "Lamp", deviceType |-> "switchBinary"]
UntitledDevice == [id |-> "zw2", title |-> "", deviceType |-> "switchBinary"]
DeviceLists ==
    {<<>>, <<ValidDevice>>, <<UntitledDevice>>,
     <<ValidDevice, UntitledDevice>>, <<UntitledDevice, ValidDevice>>}

\* the body of the answer to GET /devices
\*   "unparsable" : JSON.parse throws
\*   "nodevices"  : parses, but .data.devices.filter throws (no data, no devices)
\*   "devices"    : {data: {devices: [...]}}
Body(kind, devices) == [kind |-> kind, devices |-> devices]
NoBody == Body("-", <<>>)
DeviceBodies ==
    {Body("unparsable", <<>>), Body("nodevices", <<>>)}
        \cup {Body("devices", l) : l \in DeviceLists}

isZWayDeviceValid(d) == d.id # "" /\ d.title # "" /\ d.deviceType # ""

\* .filter(isZWayDeviceValid).map(zWayDevice => {id: zWayDevice.id, ...}): the ids
zWayEndpoints(devices) ==
    LET valid == SelectSeq(devices, isZWayDeviceValid)
    IN  [i \in 1 .. Len(valid) |-> valid[i].id]

\* The request being handled.
\*   phase    : "idle" (none yet), "waiting" (the handler has returned, the
\*              answer waits for a promise), "done"
\*   route    : "GET" (/endpoints) or "PUT" (/endpoints/:endpointId/:resourceId)
\*   sent     : the status codes put on the wire through inResponse
\*   payload  : the endpoint ids of a 200 answer to GET /endpoints
\*   threw    : an exception left the handler (express is left to deal with it)
\*   issued   : emissions the handler asked the IR emitter for
\*   hub      : the handler called zWayGet
\*   login    : the outcome of the login made for the handler's zWayGet, "-" if none
\*   body     : the body of the answer zWayGet resolved with
IdleReq ==
    [phase |-> "idle", route |-> "-", endpointId |-> "-", resourceId |-> "-",
     volumeSteps |-> 0, mute |-> "absent",
     sent |-> <<>>, payload |-> <<>>, threw |-> FALSE,
     issued |-> 0, hub |-> FALSE, login |-> "-", body |-> NoBody]

\* the zWayGet call of the request being handled
HandlerCall == 1

\* an exception leaves the handler
throws(r) == [r EXCEPT !.threw = TRUE, !.phase = "done"]

\* response.status(code).send(data): on a response that was sent already
\* send throws (the headers cannot be set any more)
send(r, status, payload) ==
    IF r.sent # <<>>
    THEN throws(r)
    ELSE [r EXCEPT !.sent = <<status>>, !.payload = payload, !.phase = "done"]

\* sendError(response, error); `response` says what the first argument is:
\* "inResponse", or a string, on which .status is not a function (and
\* JSON.stringify of the response object passed as error throws before that)
sendError(r, response) ==
    IF response = "inResponse" THEN send(r, "500", <<>>) ELSE throws(r)

sendSuccess(r, payload) == send(r, "200", payload)

\* handleTvChannelRequest, handleRokuChannelRequest, handleTvPlaybackRequest,
\* handleRokuPlaybackRequest: sendError('Not yet implemented', inResponse)
notYetImplemented(r) == sendError(r, "Not yet implemented")

sendUnsupportedDeviceOperationError(r) == sendError(r, "inResponse")

isTvRequest(r) == r.endpointId \in TvIds
isRokuRequest(r) == r.endpointId = RokuId

\* handleTvPowerRequest: one emission; the answer waits for its promise
handleTvPowerRequest(r) ==
    /\ IrUnused
    /\ ir' = sendIrCommand(NoEmissions)
    /\ chain' = "send"
    /\ promise' = "pending"
    /\ req' = [r EXCEPT !.issued = 1]
    /\ UNCHANGED <<times, zWayVars>>

\* handleTvPowerRequest, once the promise p of sendIrCommand has settled:
\*     .then(tvResponse => sendSuccess(..)).catch(error => sendError(inResponse, error))
handleTvPowerThen(r, p) ==
    IF r.phase = "waiting" /\ r.route = "PUT"
    THEN IF p = "resolved" THEN sendSuccess(r, <<>>)
         ELSE IF p = "rejected" THEN sendError(r, "inResponse")
         ELSE r
    ELSE r

\* handleTvVolumeRequest that answers only when the emissions are under way
handleTvVolumeRequest_AnswersLast(r) ==
    IF r.mute # "absent"
    THEN /\ IrUnused
         /\ ir' = sendIrCommand(NoEmissions)
         /\ chain' = "send"
         /\ promise' = "pending"
         /\ req' = sendSuccess([r EXCEPT !.issued = 1], <<>>)
         /\ UNCHANGED <<times, zWayVars>>
    ELSE IF r.volumeSteps # 0
    THEN /\ IrRepeatStep(Abs(r.volumeSteps))
         /\ req' = [r EXCEPT !.issued = ir'.issued]
    ELSE /\ req' = sendError(r, "inResponse")
         /\ UNCHANGED <<repeatVars, zWayVars>>

\* handleTvVolumeRequest: sendSuccess(inResponse) first, then the emissions
\* (their promise is dropped), or sendError on the response just sent
handleTvVolumeRequest(r) ==
    LET answered == sendSuccess(r, <<>>)
    IN  IF r.mute # "absent"
        THEN /\ IrUnused
             /\ ir' = sendIrCommand(NoEmissions)
             /\ chain' = "send"
             /\ promise' = "pending"
             /\ req' = [answered EXCEPT !.issued = 1]
             /\ UNCHANGED <<times, zWayVars>>
        ELSE IF r.volumeSteps # 0
        THEN /\ IrRepeatStep(Abs(r.volumeSteps))
             /\ req' = [answered EXCEPT !.issued = ir'.issued]
        ELSE /\ req' = sendError(answered, "inResponse")
             /\ UNCHANGED <<repeatVars, zWayVars>>

\* the switch of handleTvRequest ('input' has no case: default)
handleTvRequest(r) ==
    IF r.resourceId = "power" THEN handleTvPowerRequest(r)
    ELSE IF r.resourceId = "volume" THEN handleTvVolumeRequest(r)
    ELSE /\ req' = IF r.resourceId \in {"channel", "playback"}
                   THEN notYetImplemented(r)
                   ELSE sendUnsupportedDeviceOperationError(r)
         /\ UNCHANGED <<repeatVars, zWayVars>>

handleRokuRequest(r) ==
    /\ req' = IF r.resourceId \in {"channel", "playback"}
              THEN notYetImplemented(r)
              ELSE sendUnsupportedDeviceOperationError(r)
    /\ UNCHANGED <<repeatVars, zWayVars>>

\* the handler of GET /endpoints once the call of zWayGet('/devices') has moved on
\* that leaves a rejection unanswered (no catch before the last then)
getEndpointsThen_NoCatch(r, call, body) ==
    IF r.route # "GET" \/ r.phase # "waiting" THEN r
    ELSE IF call.pc = "resolved" /\ body.kind = "devices"
    THEN sendSuccess([r EXCEPT !.body = body],
                     StaticEndpoints \o zWayEndpoints(body.devices))
    ELSE IF call.pc = "resolved"
    THEN [r EXCEPT !.body = body]
    ELSE r

\* the handler of GET /endpoints once the call of zWayGet('/devices') has moved on:
\*     .then(<parse, filter, map, concat>).catch(<log>)
\*     .then(() => sendSuccess(inResponse, endpoints))
\* a body that does not parse to a device list throws in the first then
getEndpointsThen(r, call, body) ==
    IF r.route # "GET" \/ r.phase # "waiting" THEN r
    ELSE IF call.pc = "resolved"
    THEN sendSuccess([r EXCEPT !.body = body],
                     IF body.kind = "devices"
                     THEN StaticEndpoints \o zWayEndpoints(body.devices)
                     ELSE StaticEndpoints)
    ELSE IF call.pc = "rejected"
    THEN sendSuccess(r, StaticEndpoints)
    ELSE r

(***************************************************************************)
(* The handlers' steps                                                     *)
(***************************************************************************)
\* GET /endpoints arrives
GetEndpoints ==
    /\ req.phase \in {"idle", "done"}
    /\ calls' = [calls EXCEPT ![HandlerCall] = zWayGet(IdleCall, sid)]
    /\ req' = [IdleReq EXCEPT !.phase = "waiting", !.route = "GET", !.hub = TRUE]
    /\ UNCHANGED <<sid, repeatVars>>

\* PUT /endpoints/e/res arrives (a body whose volume fields are not read is
\* taken as having none).  For an endpoint that is neither TV nor Roku the
\* handler evaluates isPowerRequest(isRequest): isRequest is not defined, a
\* ReferenceError is thrown and the two branches after it are never reached.
PutEndpoint(e, res, steps, mute) ==
    /\ req.phase \in {"idle", "done"}
    /\ (e \in TvIds /\ res = "volume") \/ (steps = 0 /\ mute = "absent")
    /\ LET r == [IdleReq EXCEPT !.phase = "waiting", !.route = "PUT",
                                !.endpointId = e, !.resourceId = res,
                                !.volumeSteps = steps, !.mute = mute]
       IN  IF isTvRequest(r) THEN handleTvRequest(r)
           ELSE IF isRokuRequest(r) THEN handleRokuRequest(r)
           ELSE /\ req' = throws(r)
                /\ UNCHANGED <<repeatVars, zWayVars>>

\* the hub's answers to the requests of the handler's zWayGet
DevicesGetSettles(outcome, body) ==
    /\ GetStep(HandlerCall, outcome)
    /\ req' = getEndpointsThen(req, calls'[HandlerCall], body)

DevicesLoginSettles(outcome, body) ==
    /\ LoginStep(HandlerCall, outcome, body)
    /\ req' = getEndpointsThen([req EXCEPT !.login = outcome], calls'[HandlerCall], NoBody)

DevicesAuthGetSettles(outcome, body) ==
    /\ AuthGetStep(HandlerCall, outcome)
    /\ req' = getEndpointsThen(req, calls'[HandlerCall], body)

\* the first emission settles while a handler may be waiting for it
TvPowerSettles(outcome) ==
    /\ IrHeadStep(outcome)
    /\ req' = handleTvPowerThen(req, promise')

InitRepeat ==
    /\ times = NotCalled
    /\ ir = NoEmissions
    /\ chain = "none"
    /\ promise = "none"

InitZWay ==
    /\ sid = Undefined
    /\ calls = [c \in Callers |-> IdleCall]

InitServer == req = IdleReq

Init == InitRepeat /\ InitZWay /\ InitServer

NextRepeat ==
    \/ \E t \in Counts : IrRepeatCall(t)
    \/ \E o \in IrOutcomes : IrHeadSettles(o)
    \/ PauseElapsed
    \/ \E o \in IrOutcomes : IrRestSettles(o)

SpecRepeat == Init /\ [][NextRepeat]_vars

NextZWay ==
    \/ \E c \in Callers : ZWayGetCall(c)
    \/ \E c \in Callers, o \in HubOutcomes : GetSettles(c, o)
    \/ \E c \in Callers, o \in HubOutcomes, b \in LoginBodies : LoginSettles(c, o, b)
    \/ \E c \in Callers, o \in HubOutcomes : AuthGetSettles(c, o)

SpecZWay == Init /\ [][NextZWay]_vars

NextServer ==
    \/ GetEndpoints
    \/ \E e \in EndpointIds, res \in ResourceIds : PutEndpoint(e, res, 0, "absent")
    \/ \E e \in TvIds, steps \in VolumeSteps, mute \in Mutes :
          PutEndpoint(e, "volume", steps, mute)
    \/ \E o \in HubOutcomes, b \in DeviceBodies : DevicesGetSettles(o, b)
    \/ \E o \in HubOutcomes, b \in LoginBodies : DevicesLoginSettles(o, b)
    \/ \E o \in HubOutcomes, b \in DeviceBodies : DevicesAuthGetSettles(o, b)
    \/ \E o \in IrOutcomes : TvPowerSettles(o)
    \/ PauseElapsed
    \/ \E o \in IrOutcomes : IrRestSettles(o)

SpecServer == Init /\ [][NextServer]_vars

(***************************************************************************)
(* Properties of the repeater (checked under SpecRepeat)                   *)
(***************************************************************************)
Called == times # NotCalled

\* counts for which the code returns a promise
Returned == Called /\ promise # "threw"

\* C1: for 1 <= times <= MAX_IR_REPEAT one call of irRepeat issues exactly
\* `times` emissions: that many when it returns, and none is added afterwards
C1_ExactCount ==
    (Called /\ times >= 1 /\ times <= MAX_IR_REPEAT) => ir.issued = times

\* an invocation with the largest legal count, all of whose emissions have settled
C1_Witness ==
    /\ times = MAX_IR_REPEAT
    /\ ir.issued = MAX_IR_REPEAT
    /\ InFlight(ir) = 0

\* C2: at most one emission of an invocation is in flight at any time
C2_Sequential ==
    (Called /\ times >= 0) => InFlight(ir) <= 1

\* C3: with times > 1, no emission after the first is issued while an earlier
\* one is unacknowledged or before the pause that follows it has elapsed
C3_Paced ==
    (Called /\ times > 1) => ir.unpaced = 0

\* C4: for times > MAX_IR_REPEAT exactly MAX_IR_REPEAT emissions are issued,
\* and clamping is no error: the call returns a promise, and that promise
\* rejects only if the first emission's request fails
C4_Clamped ==
    (Called /\ times > MAX_IR_REPEAT) =>
        /\ ir.issued = MAX_IR_REPEAT
        /\ promise # "threw"
        /\ (promise = "rejected" => ir.head = "error")

\* a clamped invocation that has completed
C4_Witness ==
    /\ times > MAX_IR_REPEAT
    /\ ir.issued = MAX_IR_REPEAT
    /\ promise = "resolved"

\* C5: for times <= 0 irRepeat issues no emission and its promise is
\* resolved when it returns
C5_NonPositiveNoOp ==
    (Called /\ times <= 0) => (ir.issued = 0 /\ promise = "resolved")

\* C6: once an emission of the sequence has failed, the returned promise is
\* rejected and no further emission is issued
C6_FailFast ==
    (Returned /\ times >= 0 /\ Failed(ir)) =>
        (promise = "rejected" /\ ir.afterFailure = 0)

\* C17: the promise of irRepeat is resolved only after every emission of the
\* invocation has been acknowledged: never while an emission is in flight
C17_CompletesAfterAll ==
    (Returned /\ times >= 0 /\ promise = "resolved") => InFlight(ir) = 0

(***************************************************************************)
(* Properties of the relay client (checked under SpecZWay)                 *)
(***************************************************************************)
Positions(call, op) == {i \in 1 .. Len(call.log) : call.log[i].op = op}

\* the entry at position i of the log is op (FALSE beyond the end)
At(call, i, op) == i >= 1 /\ i <= Len(call.log) /\ call.log[i].op = op

\* the call started with a session and its first GET was answered with `status`
FirstAnswer(call, status) ==
    call.hadSid /\ At(call, 2, "GOT") /\ call.log[2].status = status

\* C7: a call started without a session sends exactly one login, as its first
\* request, and every GET it sends follows directly the response of that
\* login and carries the sid that response stored
C7_LoginBeforeGet ==
    \A c \in Callers :
        LET call == calls[c]
        IN  (call.pc # "idle" /\ ~call.hadSid) =>
                /\ Sent(call, "LOGIN") = 1
                /\ At(call, 1, "LOGIN")
                /\ \A i \in Positions(call, "GET") :
                      /\ At(call, i - 1, "LOGGED")
                      /\ call.log[i - 1].sid = call.log[i].sid
                      /\ call.log[i].sid \in Tokens

\* a call started without a session that logged in, sent its GET and got the answer
C7_Witness ==
    \E c \in Callers :
        /\ ~calls[c].hadSid
        /\ calls[c].pc = "resolved"
        /\ Sent(calls[c], "LOGIN") = 1
        /\ Sent(calls[c], "GET") = 1

\* C8: a call started with a session whose GET is answered 401 sends exactly
\* one login and, on the login's sid, exactly one more GET carrying that sid,
\* and resolves with the answer to that GET; a GET answered with another
\* status resolves the call with that answer, with no login and no second GET
C8_RenewOnceRetryOnce ==
    \A c \in Callers :
        LET call == calls[c]
        IN  /\ (call.pc # "idle" /\ call.hadSid) => At(call, 1, "GET")
            /\ FirstAnswer(call, "401") =>
                  /\ Sent(call, "LOGIN") = 1
                  /\ At(call, 3, "LOGIN")
                  /\ Sent(call, "GET") <= 2
                  /\ (At(call, 4, "LOGGED") /\ call.log[4].sid \in Tokens) =>
                        /\ Sent(call, "GET") = 2
                        /\ At(call, 5, "GET")
                        /\ call.log[5].sid = call.log[4].sid
                  /\ At(call, 6, "GOT") =>
                        /\ call.pc = "resolved"
                        /\ call.result = call.log[6].status
                        /\ Len(call.log) = 6
            /\ \A st \in HubStatus \ {"401"} :
                  FirstAnswer(call, st) =>
                      /\ Sent(call, "LOGIN") = 0
                      /\ Sent(call, "GET") = 1
                      /\ call.pc = "resolved"
                      /\ call.result = st

\* a call that renewed its session after a 401 and got 200 on the retry
C8_Witness ==
    \E c \in Callers :
        /\ FirstAnswer(calls[c], "401")
        /\ Sent(calls[c], "LOGIN") = 1
        /\ Sent(calls[c], "GET") = 2
        /\ calls[c].pc = "resolved"
        /\ calls[c].result = "200"

\* C9: when the retry GET is answered 401 too, the call ends with an error
\* (its promise is rejected)
C9_SecondUnauthorizedRejects ==
    \A c \in Callers :
        LET call == calls[c]
        IN  (FirstAnswer(call, "401") /\ At(call, 6, "GOT") /\ call.log[6].status = "401")
                => call.pc = "rejected"

C19_NetworkFailureEndsCall ==
    \A c \in Callers :
        LET call == calls[c]
        IN  \A i \in Positions(call, "FAILED") :
                /\ i = Len(call.log)
                /\ call.pc = "rejected"

\* a call whose GET after a renewal failed on the network
C19_Witness ==
    \E c \in Callers :
        /\ FirstAnswer(calls[c], "401")
        /\ At(calls[c], 6, "FAILED")
        /\ calls[c].pc = "rejected"

\* the login of call c is answered in this step
LoginAnswered(c) == calls[c].pc = "login" /\ calls'[c] # calls[c]

\* what call c logged for that answer
LoginLogged(c) == calls'[c].log[Len(calls[c].log) + 1]

\* C20: renewals are not deduplicated and the last write wins: every call
\* waiting for a login has sent a login of its own, and each login response
\* that is processed with a token leaves that token in sid, whatever sid held
C20_LastLoginWins ==
    [][\A c \in Callers :
          /\ calls'[c].pc = "login" =>
                calls'[c].log[Len(calls'[c].log)].op = "LOGIN"
          /\ (LoginAnswered(c) /\ LoginLogged(c).sid \in Tokens) =>
                sid' = LoginLogged(c).sid]_vars

\* two calls that both started without a session have both logged in, with
\* different tokens; sid holds one of the two
C20_Witness ==
    \E c, d \in Callers :
        /\ c # d
        /\ ~calls[c].hadSid /\ ~calls[d].hadSid
        /\ At(calls[c], 2, "LOGGED") /\ At(calls[d], 2, "LOGGED")
        /\ calls[c].log[2].sid \in Tokens
        /\ calls[d].log[2].sid \in Tokens
        /\ calls[c].log[2].sid # calls[d].log[2].sid
        /\ sid = calls[d].log[2].sid

(***************************************************************************)
(* Properties of the handlers (checked under SpecServer)                   *)
(***************************************************************************)
TheCall == calls[HandlerCall]

\* the answer to the login of the handler's call is processed in this step:
\* what the call logged for it (a FAILED or a LOGGED entry)
LoginProcessed ==
    /\ TheCall.pc = "login"
    /\ Len(calls'[HandlerCall].log) > Len(TheCall.log)

LoginEntry == calls'[HandlerCall].log[Len(TheCall.log) + 1]

\* C11: when the hub cannot be reached for the login, answers it with a
\* status other than 200, or answers with a body without data.sid, the call
\* is rejected, no GET is sent with the result, and sid keeps its value
C11_LoginFailureStopsCall ==
    [][(LoginProcessed /\ (req'.login # "200" \/ LoginEntry.sid \notin Tokens)) =>
          /\ calls'[HandlerCall].pc = "rejected"
          /\ Sent(calls'[HandlerCall], "GET") = Sent(TheCall, "GET")
          /\ sid' = sid]_vars

HubCallFailed ==
    \/ TheCall.pc = "rejected"
    \/ TheCall.pc = "resolved" /\ req.body.kind \in {"unparsable", "nodevices"}

\* C12: GET /endpoints is answered only once the hub call has settled, always
\* with 200, and when the hub call failed (rejected, or resolved with a body
\* that is not a device list) with exactly the static endpoints
C12_StaticListOnHubFailure ==
    req.route = "GET" =>
        /\ TheCall.pc \in {"get", "login", "authGet"} =>
              (req.sent = <<>> /\ req.phase = "waiting")
        /\ TheCall.pc \in {"resolved", "rejected"} =>
              (req.sent = <<"200">> /\ ~req.threw)
        /\ HubCallFailed => req.payload = StaticEndpoints

\* GET /endpoints answered with the static list after a login that failed
C12_Witness ==
    /\ req.route = "GET"
    /\ TheCall.pc = "rejected"
    /\ req.login # "-"
    /\ req.sent = <<"200">>
    /\ req.payload = StaticEndpoints

TvRequest(resource) ==
    req.route = "PUT" /\ req.endpointId \in TvIds /\ req.resourceId = resource

VolumeStepsRequest ==
    TvRequest("volume") /\ req.mute = "absent" /\ req.volumeSteps # 0

\* C13: a TV volume request with non-zero volumeSteps is answered 200 when
\* the handler returns, with every emission of the sequence sent and none
\* acknowledged yet; whatever the emissions do later, that stays the one answer
C13_AnswersBeforeEmissions ==
    [][VolumeStepsRequest' =>
          /\ req'.sent = <<"200">>
          /\ ~req'.threw
          /\ req'.issued = Abs(req'.volumeSteps)
          /\ ir'.issued = req'.issued
          /\ req' # req => InFlight(ir') = ir'.issued]_vars

\* a volume request of MaxSteps steps, answered, one of whose emissions failed later
C13_Witness ==
    /\ VolumeStepsRequest
    /\ Abs(req.volumeSteps) = MaxSteps
    /\ req.sent = <<"200">>
    /\ Failed(ir)
    /\ InFlight(ir) = 0

\* C14: a TV volume request with neither a boolean mute nor a non-zero
\* volumeSteps is answered 500 (no 200 is sent) and sends no emission
C14_InvalidVolumeFails ==
    (TvRequest("volume") /\ req.mute = "absent" /\ req.volumeSteps = 0) =>
        (req.sent = <<"500">> /\ req.issued = 0)

HubManaged ==
    req.route = "PUT" /\ req.endpointId \notin TvIds \cup {RokuId}

\* C15: a PUT for power on an endpoint that is neither TV nor Roku calls
\* zWayGet and is answered 200 when that call resolves, 500 when it rejects;
\* for another resource it is answered 500 without a hub call
C15_HubManagedPowerForwarded ==
    /\ (HubManaged /\ req.resourceId = "power") =>
          /\ req.hub
          /\ ~req.threw
          /\ req.phase = "done" =>
                req.sent = <<IF TheCall.pc = "resolved" THEN "200" ELSE "500">>
    /\ (HubManaged /\ req.resourceId # "power") =>
          (~req.hub /\ req.sent = <<"500">>)

NotYetImplemented ==
    /\ req.route = "PUT"
    /\ req.endpointId \in TvIds \cup {RokuId}
    /\ req.resourceId \in {"channel", "playback"}

\* C16: a PUT that reaches a not-yet-implemented handler (channel or
\* playback, of the TV or of the Roku) is answered 500 by sendError, without
\* a hub call and without an emission
C16_NotImplementedFails ==
    NotYetImplemented =>
        (req.sent = <<"500">> /\ ~req.threw /\ ~req.hub /\ req.issued = 0)

\* C18: a single emission succeeds on status 200 only: the promise of
\* irRepeat(.., 1) is resolved on 200 and rejected otherwise, and a TV power
\* request is answered 200 on 200 and 500 otherwise
C18_SingleEmissionSucceedsOn200 ==
    /\ (times = 1 /\ ir.head \in IrOutcomes) =>
          promise = (IF ir.head = "200" THEN "resolved" ELSE "rejected")
    /\ (TvRequest("power") /\ ir.head \in IrOutcomes) =>
          req.sent = <<IF ir.head = "200" THEN "200" ELSE "500">>

\* C21: sid is absent at startup and changes only in a step that processes
\* a login response; once it holds a session it is never absent again
C21_SidChangesOnLoginOnly ==
    /\ sid = Undefined
    /\ [][/\ sid' # sid => (LoginProcessed /\ LoginEntry.op = "LOGGED")
          /\ sid # Undefined => sid' # Undefined]_vars

\* what the answer of the request being handled waits for has not settled yet
BackingCallPending ==
    \/ req.route = "GET" /\ TheCall.pc \in {"get", "login", "authGet"}
    \/ req.route = "PUT" /\ ir.head = "inflight"

\* C22: every request is answered exactly once: the handler never sends on a
\* response that was sent already, no exception leaves it, a request it is
\* done with has its one answer, and one without an answer waits for a call
\* that has not settled
C22_AnsweredExactlyOnce ==
    req.phase # "idle" =>
        /\ ~req.threw
        /\ Len(req.sent) <= 1
        /\ req.phase = "done" => Len(req.sent) = 1
        /\ req.phase = "waiting" => (req.sent = <<>> /\ BackingCallPending)

====
